---- MODULE Spec2Model ----
(***************************************************************************)
(* gitdiff2docx (src/diff_tool.py): the main loop that turns every changed *)
(* file of a git range into a section of a Word report.  For each file the *)
(* two versions are fetched as byte buffers, classified (text / binary /   *)
(* image), decoded into lines, aligned with difflib.SequenceMatcher,       *)
(* projected into prefixed diff rows with line numbers, and rendered as a  *)
(* syntax-highlighted table.                                               *)
(*                                                                         *)
(* Text is modelled as sequences of code points, byte buffers as sequences *)
(* of 0..255.  The libraries the script calls (difflib, mimetypes,         *)
(* pygments, python-docx) are modelled by what they return to the script.  *)
(***************************************************************************)
EXTENDS Integers, Sequences, FiniteSets, TLC

VARIABLES
    pygments_style,   \* config["pygments_style"]
    token_styles,     \* the category -> attribute-string mapping in use
    nfiles,           \* len(changed_files)
    index,            \* number of files whose loop body has been entered
    file,             \* the loop variable `file`
    old_bytes, new_bytes,
    kind,             \* the branch taken for the file: Text, Binary or Image
    old_content, new_content,
    lexer,
    opcodes,          \* matcher.get_opcodes()
    pos,              \* where the for-loops of the projection stand
    diff_lines, line_nums, old_idx, new_idx,
    table,            \* the rows of the table add_diff_table is building
    doc,              \* what the loop has added to the document, per file
    saved,            \* doc.save(output_docx) has run
    error,            \* the exception that ended the run, or "none"
    pc,
    bytes_data,       \* argument and result of a stand-alone call of
    is_binary         \*   is_binary_string

vars == <<pygments_style, token_styles, nfiles, index, file, old_bytes,
          new_bytes, kind, old_content, new_content, lexer, opcodes, pos,
          diff_lines, line_nums, old_idx, new_idx, table, doc, saved, error,
          pc, bytes_data, is_binary>>

(***************************************************************************)
(* Bounds of the model.                                                    *)
(***************************************************************************)
MaxLines == 3      \* lines per version of a file, when one file is aligned
MaxShort == 1      \* lines per version of a file, in whole runs of the script
MaxFiles == 2      \* len(changed_files)
MaxPad == 1        \* bytes around the probed byte in a stand-alone buffer

(***************************************************************************)
(* Small helpers on sequences.                                             *)
(***************************************************************************)
Range(s) == {s[x] : x \in DOMAIN s}

SeqsUpTo(S, n) == UNION {[1..m -> S] : m \in 0..n}

\* Python's s[lo:hi] for 0 <= lo <= hi <= len(s)
Slice(s, lo, hi) == SubSeq(s, lo + 1, hi)

RECURSIVE Flatten(_)
Flatten(ss) == IF ss = <<>> THEN <<>> ELSE Head(ss) \o Flatten(Tail(ss))

Min(S) == CHOOSE x \in S : \A y \in S : x <= y
Max(S) == CHOOSE x \in S : \A y \in S : x >= y

(***************************************************************************)
(* Content classifier.                                                     *)
(***************************************************************************)
Bytes == 0..255

\* One-off-by-one variant of textchars: range(0x20, 0xFF) instead of
\* range(0x20, 0x100).
TextCharsTo254 == {7, 8, 9, 10, 12, 13, 27} \cup ((32..254) \ {127})

\* textchars: Python's `-` binds tighter than `|`.
TextChars == {7, 8, 9, 10, 12, 13, 27} \cup ((32..255) \ {127})

\* bytes_data.translate(None, textchars): the bytes left after deleting
\* every text character
Translate(data) == SelectSeq(data, LAMBDA b : b \notin TextChars)

is_binary_string(data) == Translate(data) # <<>>

\* The file names of the model and what mimetypes.guess_type returns for
\* them: <<major, minor>>, or <<>> for None.
FileNames == {"a.py", "b.png", "notes"}

GuessType(filename) ==
    CASE filename = "a.py"  -> <<"text", "x-python">>
      [] filename = "b.png" -> <<"image", "png">>
      [] OTHER              -> <<>>

\* mimetype and mimetype.startswith("image/")
is_image_file(filename) ==
    LET mimetype == GuessType(filename)
    IN  mimetype # <<>> /\ mimetype[1] = "image"

(***************************************************************************)
(* Decoding.  bytes.decode("utf-8", errors="ignore") on buffers of ASCII   *)
(* bytes and bytes that are never part of valid UTF-8 (0xFF): the invalid  *)
(* bytes are dropped.  str.splitlines() splits at every line boundary and  *)
(* keeps no terminators; "\r\n" is one boundary.                           *)
(***************************************************************************)
Decode(buf) == SelectSeq(buf, LAMBDA b : b < 128)

LineBoundaries == {10, 11, 12, 13, 28, 29, 30, 133, 8232, 8233}

RECURSIVE SplitLines(_)
SplitLines(s) ==
    IF s = <<>> THEN <<>>
    ELSE LET ends == {x \in DOMAIN s : s[x] \in LineBoundaries}
         IN  IF ends = {} THEN <<s>>
             ELSE LET e == Min(ends)
                      crlf == s[e] = 13 /\ e < Len(s) /\ s[e + 1] = 10
                      next == IF crlf THEN e + 2 ELSE e + 1
                  IN  <<SubSeq(s, 1, e - 1)>>
                          \o SplitLines(SubSeq(s, next, Len(s)))

DecodeLines(buf) == SplitLines(Decode(buf))

(***************************************************************************)
(* The inputs of the model: git show's output for one side of a file.      *)
(* Lines are "if", "#" and the empty line.                                 *)
(***************************************************************************)
LineAlphabet == {<<105, 102>>, <<35>>, <<>>}

EncodeLines(ls) == Flatten([x \in DOMAIN ls |-> ls[x] \o <<10>>])

LineBuffers(n) == {EncodeLines(ls) : ls \in SeqsUpTo(LineAlphabet, n)}

\* No final newline; CRLF; a form feed; a lone 0xFF (text by the heuristic,
\* dropped by the decoder); NUL bytes; a vertical tab.
OddTextBuffers == {<<35>>, <<105, 102, 13, 10, 35>>, <<35, 12, 35>>, <<255>>}
BinaryBuffers == {<<0>>, <<35, 10, 0>>, <<137, 80, 11>>}

Buffers == LineBuffers(MaxShort) \cup OddTextBuffers \cup BinaryBuffers

(***************************************************************************)
(* Line alignment: difflib.SequenceMatcher(None, a, b).get_opcodes().      *)
(* No junk predicate is given, and the automatic junk heuristic only acts  *)
(* on sequences of 200 or more elements, so every element of b is indexed. *)
(* Indices are Python's (0-based, half-open).                              *)
(***************************************************************************)
\* j2len[j] after row i of find_longest_match: the length of the common run
\* that ends at a[i] and b[j] inside the window that starts at alo, blo
RECURSIVE RunLen(_, _, _, _, _, _)
RunLen(a, b, alo, blo, i, j) ==
    IF a[i + 1] # b[j + 1] THEN 0
    ELSE IF i > alo /\ j > blo
         THEN RunLen(a, b, alo, blo, i - 1, j - 1) + 1
         ELSE 1

\* find_longest_match(alo, ahi, blo, bhi): rows i ascending, and within a
\* row j ascending; the best is replaced only by a strictly longer run, so
\* the first cell that reaches the greatest length wins.
find_longest_match(a, b, alo, ahi, blo, bhi) ==
    LET cells == {c \in (alo..(ahi - 1)) \X (blo..(bhi - 1)) :
                      a[c[1] + 1] = b[c[2] + 1]}
        len(c) == RunLen(a, b, alo, blo, c[1], c[2])
    IN  IF cells = {} THEN <<alo, blo, 0>>
        ELSE LET bestsize == Max({len(c) : c \in cells})
                 best == {c \in cells : len(c) = bestsize}
                 i == Min({c[1] : c \in best})
                 j == Min({c[2] : c \in {d \in best : d[1] = i}})
             IN  <<i - bestsize + 1, j - bestsize + 1, bestsize>>

\* The matching blocks of a window, sorted: the longest match, then
\* recursively the windows to its left and to its right.
RECURSIVE MatchingBlocks(_, _, _, _, _, _)
MatchingBlocks(a, b, alo, ahi, blo, bhi) ==
    LET x == find_longest_match(a, b, alo, ahi, blo, bhi)
        i == x[1]
        j == x[2]
        k == x[3]
    IN  IF k = 0 THEN <<>>
        ELSE (IF alo < i /\ blo < j
              THEN MatchingBlocks(a, b, alo, i, blo, j) ELSE <<>>)
             \o <<x>>
             \o (IF i + k < ahi /\ j + k < bhi
                 THEN MatchingBlocks(a, b, i + k, ahi, j + k, bhi) ELSE <<>>)

\* The pass that merges adjacent blocks; cur is the pending block <<i1,j1,k1>>
RECURSIVE Collapse(_, _)
Collapse(blocks, cur) ==
    IF blocks = <<>>
    THEN IF cur[3] # 0 THEN <<cur>> ELSE <<>>
    ELSE LET nxt == Head(blocks)
         IN  IF cur[1] + cur[3] = nxt[1] /\ cur[2] + cur[3] = nxt[2]
             THEN Collapse(Tail(blocks), <<cur[1], cur[2], cur[3] + nxt[3]>>)
             ELSE (IF cur[3] # 0 THEN <<cur>> ELSE <<>>)
                  \o Collapse(Tail(blocks), nxt)

\* The merged blocks without the sentinel
get_matching_blocks_no_sentinel(a, b) ==
    Collapse(MatchingBlocks(a, b, 0, Len(a), 0, Len(b)), <<0, 0, 0>>)

\* get_matching_blocks(): the merged blocks and the sentinel (la, lb, 0)
get_matching_blocks(a, b) ==
    Collapse(MatchingBlocks(a, b, 0, Len(a), 0, Len(b)), <<0, 0, 0>>)
        \o <<(<<Len(a), Len(b), 0>>)>>

Opcode(tag, i1, i2, j1, j2) ==
    [tag |-> tag, i1 |-> i1, i2 |-> i2, j1 |-> j1, j2 |-> j2]

\* The loop of get_opcodes over the matching blocks, from position (i, j)
RECURSIVE OpcodesFrom(_, _, _)
OpcodesFrom(blocks, i, j) ==
    IF blocks = <<>> THEN <<>>
    ELSE LET ai == Head(blocks)[1]
             bj == Head(blocks)[2]
             size == Head(blocks)[3]
             tag == IF i < ai /\ j < bj THEN "replace"
                    ELSE IF i < ai THEN "delete"
                    ELSE IF j < bj THEN "insert"
                    ELSE ""
         IN  (IF tag # "" THEN <<Opcode(tag, i, ai, j, bj)>> ELSE <<>>)
             \o (IF size # 0
                 THEN <<Opcode("equal", ai, ai + size, bj, bj + size)>>
                 ELSE <<>>)
             \o OpcodesFrom(Tail(blocks), ai + size, bj + size)

get_opcodes(a, b) == OpcodesFrom(get_matching_blocks(a, b), 0, 0)

(***************************************************************************)
(* Style theme and lexers (pygments).  Strings that the script takes apart *)
(* (attribute strings) are sequences of one-character strings, already     *)
(* split at white space as str.split() does.  A style's `styles` mapping   *)
(* holds '' for every standard token type it does not style.               *)
(***************************************************************************)
TokenTypes == {"Text", "Whitespace", "Keyword", "Comment", "Comment.Single",
               "Name", "Error"}

StyleNames == {"default", "bw"}
ThemeIds == StyleNames \cup {"nosuch"}

Bold == <<"b", "o", "l", "d">>
Italic == <<"i", "t", "a", "l", "i", "c">>
BorderRed == <<"b", "o", "r", "d", "e", "r", ":", "#", "F", "F", "0", "0",
               "0", "0">>

\* pygments.styles.default.DefaultStyle.styles
DefaultStyles ==
    [t \in TokenTypes |->
        CASE t = "Whitespace" -> <<(<<"#", "b", "b", "b", "b", "b", "b">>)>>
          [] t = "Comment"    -> <<Italic, <<"#", "3", "D", "7", "B", "7", "B">>>>
          [] t = "Keyword"    -> <<Bold, <<"#", "0", "0", "8", "0", "0", "0">>>>
          [] t = "Error"      -> <<BorderRed>>
          [] OTHER            -> <<>>]

\* pygments.styles.bw.BlackWhiteStyle.styles
BwStyles ==
    [t \in TokenTypes |->
        CASE t = "Comment" -> <<Italic>>
          [] t = "Keyword" -> <<Bold>>
          [] t = "Error"   -> <<BorderRed>>
          [] OTHER         -> <<>>]

\* get_style_by_name(name).styles; raises ClassNotFound for an unknown name
StylesByName(name) == IF name = "bw" THEN BwStyles ELSE DefaultStyles

NoStyles == [t \in {} |-> <<>>]

\* A fallback to no mapping at all
ResolveStylesEmpty(name) ==
    IF name \in StyleNames THEN StylesByName(name) ELSE NoStyles

\* Lines 90-95: the configured style, or the style named "default" when
\* get_style_by_name raises
ResolveStyles(name) ==
    IF name \in StyleNames THEN StylesByName(name) ELSE StylesByName("default")

HexDigits == <<"0", "1", "2", "3", "4", "5", "6", "7", "8", "9",
               "a", "b", "c", "d", "e", "f">>
UpperHex == <<"A", "B", "C", "D", "E", "F">>

IsHexDigit(c) == c \in Range(HexDigits) \cup Range(UpperHex)

HexValue(c) ==
    IF c \in Range(UpperHex)
    THEN 9 + CHOOSE x \in DOMAIN UpperHex : UpperHex[x] = c
    ELSE (CHOOSE x \in DOMAIN HexDigits : HexDigits[x] = c) - 1

\* int(s, 16) for a string of hex digits
RECURSIVE IntBase16(_)
IntBase16(s) ==
    IF s = <<>> THEN 0
    ELSE 16 * IntBase16(SubSeq(s, 1, Len(s) - 1)) + HexValue(s[Len(s)])

\* int(s, 16) raises ValueError
BadHex(s) == s = <<>> \/ \E x \in DOMAIN s : ~IsHexDigit(s[x])

\* part.lstrip("#")
RECURSIVE LStripHash(_)
LStripHash(s) ==
    IF s # <<>> /\ Head(s) = "#" THEN LStripHash(Tail(s)) ELSE s

\* Python's s[lo:hi], clamped to the string
PySlice(s, lo, hi) ==
    SubSeq(s, lo + 1, IF hi < Len(s) THEN hi ELSE Len(s))

NoColor == <<>>

\* Lines 339-351: the effect of one part of an attribute string on a run
ApplyPart(run, part) ==
    IF part = Bold THEN [run EXCEPT !.bold = TRUE]
    ELSE IF part = Italic THEN [run EXCEPT !.italic = TRUE]
    ELSE IF part # <<>> /\ part[1] = "#" /\ Len(part) = 7
    THEN LET hexcode == LStripHash(part)
             r == PySlice(hexcode, 0, 2)
             g == PySlice(hexcode, 2, 4)
             b == PySlice(hexcode, 4, 6)
         IN  IF BadHex(r) \/ BadHex(g) \/ BadHex(b) THEN run
             ELSE [run EXCEPT
                      !.color = <<IntBase16(r), IntBase16(g), IntBase16(b)>>]
    ELSE run

RECURSIVE ApplyParts(_, _)
ApplyParts(run, parts) ==
    IF parts = <<>> THEN run
    ELSE ApplyParts(ApplyPart(run, Head(parts)), Tail(parts))

\* value.rstrip('\n')
RECURSIVE RStripNewline(_)
RStripNewline(s) ==
    IF s # <<>> /\ s[Len(s)] = 10
    THEN RStripNewline(SubSeq(s, 1, Len(s) - 1)) ELSE s

Token(ttype, value) == [ttype |-> ttype, value |-> value]

\* lex(code_content, lexer) for a line without line terminators: get_tokens
\* appends the final newline, then the lexer's grammar splits the text.
Lex(code_content, lx) ==
    IF lx = "PythonLexer"
    THEN (CASE code_content = <<>> -> <<>>
            [] code_content = <<105, 102>> -> <<Token("Keyword", code_content)>>
            [] Head(code_content) = 35 -> <<Token("Comment.Single", code_content)>>
            [] OTHER -> <<Token("Name", code_content)>>)
         \o <<Token("Whitespace", <<10>>)>>
    ELSE <<Token("Text", code_content \o <<10>>)>>

\* Lines 328-351: the run made of one token
StyleRun(tok, styles) ==
    LET stripped == RStripNewline(tok.value)
        value == IF stripped = <<>> THEN <<160>> ELSE stripped
        run == [text |-> value, bold |-> FALSE, italic |-> FALSE,
                color |-> NoColor]
        \* token_styles.get(ttype): None for a missing key, and '' is falsy
        style_str == IF tok.ttype \in DOMAIN styles
                     THEN styles[tok.ttype] ELSE <<>>
    IN  ApplyParts(run, style_str)

\* Lines 270-351: the table row of one diff line
TableRow(line, lx, styles) ==
    LET symbol == IF line # <<>> /\ line[1] = 43 THEN "+"
                  ELSE IF line # <<>> /\ line[1] = 45 THEN "-"
                  ELSE "="
        code_content == PySlice(line, 1, Len(line))
        toks == Lex(code_content, lx)
    IN  [symbol |-> symbol,
         runs |-> [x \in DOMAIN toks |-> StyleRun(toks[x], styles)]]

\* A table of the changed rows only
TableRowsChanged(lines, numbers, lx, styles) ==
    LET changed == SelectSeq(lines, LAMBDA l : l[1] # 32)
    IN  [x \in DOMAIN changed |-> TableRow(changed[x], lx, styles)]

\* zip(diff_lines, line_numbers): as many rows as the shorter list
TableRows(lines, numbers, lx, styles) ==
    LET n == IF Len(lines) < Len(numbers) THEN Len(lines) ELSE Len(numbers)
    IN  [x \in 1..n |-> TableRow(lines[x], lx, styles)]

\* guess_lexer_for_filename(file, sample): the lexer whose file name
\* pattern matches, or "ClassNotFound" (raised) when none does
LexerForFilename(filename) ==
    IF filename = "a.py" THEN "PythonLexer" ELSE "ClassNotFound"

(***************************************************************************)
(* Row projection: the loops of lines 445-470.  pos = <<o, part, k>>: the  *)
(* opcode in hand, which of its inner loops runs, and how many lines that  *)
(* loop has consumed.                                                      *)
(***************************************************************************)
\* The loops of a replace, exchanged
LoopOfSwapped(opc, part) ==
    CASE opc.tag = "equal" /\ part = 1   -> [side |-> "new", lo |-> opc.j1, hi |-> opc.j2]
      [] opc.tag = "replace" /\ part = 1 -> [side |-> "new", lo |-> opc.j1, hi |-> opc.j2]
      [] opc.tag = "replace" /\ part = 2 -> [side |-> "old", lo |-> opc.i1, hi |-> opc.i2]
      [] opc.tag = "delete" /\ part = 1  -> [side |-> "old", lo |-> opc.i1, hi |-> opc.i2]
      [] opc.tag = "insert" /\ part = 1  -> [side |-> "new", lo |-> opc.j1, hi |-> opc.j2]
      [] OTHER                           -> [side |-> "none", lo |-> 0, hi |-> 0]

\* The slice an inner loop iterates: its side and its bounds
LoopOf(opc, part) ==
    CASE opc.tag = "equal" /\ part = 1   -> [side |-> "new", lo |-> opc.j1, hi |-> opc.j2]
      [] opc.tag = "replace" /\ part = 1 -> [side |-> "old", lo |-> opc.i1, hi |-> opc.i2]
      [] opc.tag = "replace" /\ part = 2 -> [side |-> "new", lo |-> opc.j1, hi |-> opc.j2]
      [] opc.tag = "delete" /\ part = 1  -> [side |-> "old", lo |-> opc.i1, hi |-> opc.i2]
      [] opc.tag = "insert" /\ part = 1  -> [side |-> "new", lo |-> opc.j1, hi |-> opc.j2]
      [] OTHER                           -> [side |-> "none", lo |-> 0, hi |-> 0]

LoopLen(opc, part) ==
    LET l == LoopOf(opc, part) IN IF l.hi > l.lo THEN l.hi - l.lo ELSE 0

\* The next place at or after p where a loop body runs; past the last
\* opcode when there is none
RECURSIVE Normalize(_, _)
Normalize(ops, p) ==
    IF p[1] > Len(ops) THEN <<Len(ops) + 1, 1, 0>>
    ELSE IF p[3] < LoopLen(ops[p[1]], p[2]) THEN p
    ELSE IF ops[p[1]].tag = "replace" /\ p[2] = 1
         THEN Normalize(ops, <<p[1], 2, 0>>)
         ELSE Normalize(ops, <<p[1] + 1, 1, 0>>)

SymAdded == 43
SymRemoved == 45
SymContext == 32

TextVars == <<old_content, new_content, lexer, opcodes, pos, diff_lines,
              line_nums, old_idx, new_idx, table>>
ConfigVars == <<pygments_style, token_styles, nfiles>>
ProbeVars == <<bytes_data, is_binary>>
FileVars == <<index, file, old_bytes, new_bytes>>

(***************************************************************************)
(* The state machine.                                                      *)
(***************************************************************************)
InitWith(themes, counts, start, probes) ==
    /\ pygments_style \in themes
    /\ token_styles = NoStyles
    /\ nfiles \in counts
    /\ index = 0
    /\ file = ""
    /\ old_bytes = <<>>
    /\ new_bytes = <<>>
    /\ kind = "none"
    /\ old_content = <<>>
    /\ new_content = <<>>
    /\ lexer = "none"
    /\ opcodes = <<>>
    /\ pos = <<1, 1, 0>>
    /\ diff_lines = <<>>
    /\ line_nums = <<>>
    /\ old_idx = 0
    /\ new_idx = 0
    /\ table = <<>>
    /\ doc = <<>>
    /\ saved = FALSE
    /\ error = "none"
    /\ pc = start
    /\ bytes_data \in probes
    /\ is_binary = FALSE

Init == InitWith(ThemeIds, 1..MaxFiles, "config", {<<>>})

\* Lines 90-95
ConfigureStyle ==
    /\ pc = "config"
    /\ token_styles' = ResolveStyles(pygments_style)
    /\ pc' = "loop"
    /\ UNCHANGED <<pygments_style, nfiles, FileVars, kind, TextVars, doc,
                   saved, error, ProbeVars>>

\* Lines 385-409: the next changed file and its two versions
FetchFrom(names, buffers) ==
    /\ pc = "loop"
    /\ index < nfiles
    /\ \E f \in names, ob \in buffers, nb \in buffers :
          /\ file' = f
          /\ old_bytes' = ob
          /\ new_bytes' = nb
    /\ index' = index + 1
    /\ doc' = (IF index # 0 THEN <<"page_break">> ELSE <<>>) \o <<"heading">>
    /\ pc' = "classify"
    /\ UNCHANGED <<ConfigVars, kind, TextVars, saved, error, ProbeVars>>

Fetch == FetchFrom(FileNames, Buffers)

\* The test of line 412 on the new version alone
IsBinaryNewOnly == is_binary_string(new_bytes)

\* Line 412
IsBinaryPair == is_binary_string(new_bytes) \/ is_binary_string(old_bytes)

\* Lines 412-421 and 426: a binary file with an image name
InsertImage ==
    /\ pc = "classify"
    /\ IsBinaryPair
    /\ is_image_file(file)
    /\ kind' = "Image"
    /\ doc' = doc \o (IF old_bytes # new_bytes
                      THEN <<"image_changed", "picture">> ELSE <<>>)
    /\ pc' = "next"
    /\ UNCHANGED <<ConfigVars, FileVars, TextVars, saved, error, ProbeVars>>

\* Lines 412, 422-426: any other binary file
SkipBinary ==
    /\ pc = "classify"
    /\ IsBinaryPair
    /\ ~is_image_file(file)
    /\ kind' = "Binary"
    /\ doc' = Append(doc, "binary_file_skipped")
    /\ pc' = "next"
    /\ UNCHANGED <<ConfigVars, FileVars, TextVars, saved, error, ProbeVars>>

\* Lines 429-437 when a lexer is found: by file name, or by content when
\* guess_lexer_for_filename raises
ChooseLexer ==
    /\ pc = "classify"
    /\ ~IsBinaryPair
    /\ kind' = "Text"
    /\ old_content' = DecodeLines(old_bytes)
    /\ new_content' = DecodeLines(new_bytes)
    /\ lexer' = IF LexerForFilename(file) # "ClassNotFound"
                THEN LexerForFilename(file) ELSE "TextLexer"
    /\ pc' = "align"
    /\ UNCHANGED <<ConfigVars, FileVars, opcodes, pos, diff_lines, line_nums,
                   old_idx, new_idx, table, doc, saved, error, ProbeVars>>

\* Lines 429-437 when guess_lexer raises ClassNotFound too: nothing catches
\* it and the script ends
GuessLexerFails ==
    /\ pc = "classify"
    /\ ~IsBinaryPair
    /\ LexerForFilename(file) = "ClassNotFound"
    /\ kind' = "Text"
    /\ old_content' = DecodeLines(old_bytes)
    /\ new_content' = DecodeLines(new_bytes)
    /\ error' = "ClassNotFound"
    /\ pc' = "crashed"
    /\ UNCHANGED <<ConfigVars, FileVars, lexer, opcodes, pos, diff_lines,
                   line_nums, old_idx, new_idx, table, doc, saved, ProbeVars>>

\* Lines 439-443
Align ==
    /\ pc = "align"
    /\ opcodes' = get_opcodes(old_content, new_content)
    /\ diff_lines' = <<>>
    /\ line_nums' = <<>>
    /\ old_idx' = 0
    /\ new_idx' = 0
    /\ pos' = Normalize(opcodes', <<1, 1, 0>>)
    /\ pc' = "project"
    /\ UNCHANGED <<ConfigVars, FileVars, kind, old_content, new_content,
                   lexer, table, doc, saved, error, ProbeVars>>

CurOp == opcodes[pos[1]]

CurLine ==
    LET l == LoopOf(CurOp, pos[2])
    IN  IF l.side = "old" THEN old_content[l.lo + pos[3] + 1]
        ELSE new_content[l.lo + pos[3] + 1]

InLoop(tag, part) ==
    /\ pc = "project"
    /\ pos[1] <= Len(opcodes)
    /\ CurOp.tag = tag
    /\ pos[2] = part

\* One pass through a loop body: the row, its number, the counters
Emit(sym, number, old_step, new_step) ==
    /\ diff_lines' = Append(diff_lines, <<sym>> \o CurLine)
    /\ line_nums' = Append(line_nums, number)
    /\ old_idx' = old_idx + old_step
    /\ new_idx' = new_idx + new_step
    /\ pos' = Normalize(opcodes, <<pos[1], pos[2], pos[3] + 1>>)
    /\ UNCHANGED <<ConfigVars, FileVars, kind, old_content, new_content,
                   lexer, opcodes, table, doc, saved, error, pc, ProbeVars>>

\* The context loop numbering its rows from 0
ProjectEqualZeroBased == InLoop("equal", 1) /\ Emit(SymContext, new_idx, 1, 1)

\* The context loop without line 451 (old_idx += 1)
ProjectEqualNewOnly == InLoop("equal", 1) /\ Emit(SymContext, new_idx + 1, 0, 1)

\* Lines 446-451
ProjectEqual == InLoop("equal", 1) /\ Emit(SymContext, new_idx + 1, 1, 1)

\* Lines 452-456
ProjectReplaceOld == InLoop("replace", 1) /\ Emit(SymRemoved, old_idx + 1, 1, 0)

\* The second loop of a replace with the context prefix instead of "+"
ProjectReplaceNewAsContext ==
    InLoop("replace", 2) /\ Emit(SymContext, new_idx + 1, 0, 1)

\* Lines 457-460
ProjectReplaceNew == InLoop("replace", 2) /\ Emit(SymAdded, new_idx + 1, 0, 1)

\* Lines 461-465
ProjectDelete == InLoop("delete", 1) /\ Emit(SymRemoved, old_idx + 1, 1, 0)

\* Lines 466-470
ProjectInsert == InLoop("insert", 1) /\ Emit(SymAdded, new_idx + 1, 0, 1)

ProjectionDone == pc = "project" /\ pos[1] > Len(opcodes)

\* Lines 473-474 when every row is styled
AddDiffTable ==
    /\ ProjectionDone
    /\ diff_lines # <<>>
    /\ table' = TableRows(diff_lines, line_nums, lexer, token_styles)
    /\ doc' = Append(doc, "table")
    /\ pc' = "next"
    /\ UNCHANGED <<ConfigVars, FileVars, kind, old_content, new_content,
                   lexer, opcodes, pos, diff_lines, line_nums, old_idx,
                   new_idx, saved, error, ProbeVars>>

\* Lines 473-474 when lex() raises on row r: the table keeps the rows
\* before it, nothing catches the exception and the script ends
TokenizerFails ==
    /\ ProjectionDone
    /\ diff_lines # <<>>
    /\ \E r \in 1..Len(diff_lines) :
          table' = SubSeq(TableRows(diff_lines, line_nums, lexer,
                                    token_styles), 1, r - 1)
    /\ doc' = Append(doc, "table")
    /\ error' = "TokenizerError"
    /\ pc' = "crashed"
    /\ UNCHANGED <<ConfigVars, FileVars, kind, old_content, new_content,
                   lexer, opcodes, pos, diff_lines, line_nums, old_idx,
                   new_idx, saved, ProbeVars>>

\* Lines 475-476 when the document has a paragraph style named "Italic"
NoSignificantChanges ==
    /\ ProjectionDone
    /\ diff_lines = <<>>
    /\ doc' = Append(doc, "no_significant_changes")
    /\ pc' = "next"
    /\ UNCHANGED <<ConfigVars, FileVars, kind, TextVars, saved, error,
                   ProbeVars>>

\* Lines 475-476 when the document (line 204: the library's default
\* template) has no paragraph style named "Italic": add_paragraph has put
\* the paragraph and its text in the body when the style lookup raises
\* KeyError; nothing catches it and the script ends
ItalicStyleMissing ==
    /\ ProjectionDone
    /\ diff_lines = <<>>
    /\ doc' = Append(doc, "no_significant_changes")
    /\ error' = "KeyError"
    /\ pc' = "crashed"
    /\ UNCHANGED <<ConfigVars, FileVars, kind, TextVars, saved, ProbeVars>>

\* Line 426 (continue) or the end of the loop body (lines 478-479): back to
\* the head of the loop.  What the iteration leaves in the per-file
\* variables is dead (each is assigned again before any use), and the
\* elements already in the document are never read again: both are dropped.
NextIteration ==
    /\ pc = "next"
    /\ file' = ""
    /\ old_bytes' = <<>>
    /\ new_bytes' = <<>>
    /\ kind' = "none"
    /\ old_content' = <<>>
    /\ new_content' = <<>>
    /\ lexer' = "none"
    /\ opcodes' = <<>>
    /\ pos' = <<1, 1, 0>>
    /\ diff_lines' = <<>>
    /\ line_nums' = <<>>
    /\ old_idx' = 0
    /\ new_idx' = 0
    /\ table' = <<>>
    /\ doc' = <<>>
    /\ pc' = "loop"
    /\ UNCHANGED <<ConfigVars, index, saved, error, ProbeVars>>

\* Lines 481-487
Save ==
    /\ pc = "loop"
    /\ index = nfiles
    /\ saved' = TRUE
    /\ pc' = "done"
    /\ UNCHANGED <<ConfigVars, FileVars, kind, TextVars, doc, error,
                   ProbeVars>>

Next ==
    \/ ConfigureStyle
    \/ Fetch
    \/ InsertImage
    \/ SkipBinary
    \/ ChooseLexer
    \/ GuessLexerFails
    \/ Align
    \/ ProjectEqual
    \/ ProjectReplaceOld
    \/ ProjectReplaceNew
    \/ ProjectDelete
    \/ ProjectInsert
    \/ AddDiffTable
    \/ TokenizerFails
    \/ NoSignificantChanges
    \/ ItalicStyleMissing
    \/ NextIteration
    \/ Save

Spec == Init /\ [][Next]_vars

(***************************************************************************)
(* One text file with up to MaxLines lines per version, through alignment  *)
(* and projection.                                                         *)
(***************************************************************************)
InitDiff == InitWith({"default"}, {1}, "config", {<<>>})

FetchLines == FetchFrom({"a.py"}, LineBuffers(MaxLines))

NextDiff ==
    \/ ConfigureStyle
    \/ FetchLines
    \/ ChooseLexer
    \/ Align
    \/ ProjectEqual
    \/ ProjectReplaceOld
    \/ ProjectReplaceNew
    \/ ProjectDelete
    \/ ProjectInsert

SpecDiff == InitDiff /\ [][NextDiff]_vars

(***************************************************************************)
(* is_binary_string on its own: every byte value, alone and between up to  *)
(* MaxPad bytes of padding on each side, and the empty buffer.             *)
(***************************************************************************)
PadBytes == {0, 10, 97, 127, 255}

ProbeBuffers ==
    {<<>>} \cup {pre \o <<b>> \o post :
                    pre \in SeqsUpTo(PadBytes, MaxPad), b \in Bytes,
                    post \in SeqsUpTo(PadBytes, MaxPad)}

InitBytes == InitWith({"default"}, {1}, "call", ProbeBuffers)

CallIsBinary ==
    /\ pc = "call"
    /\ is_binary' = is_binary_string(bytes_data)
    /\ pc' = "returned"
    /\ UNCHANGED <<ConfigVars, FileVars, kind, TextVars, doc, saved, error,
                   bytes_data>>

SpecBytes == InitBytes /\ [][CallIsBinary]_vars

(***************************************************************************)
(* Properties.                                                             *)
(***************************************************************************)
NewSyms == {SymAdded, SymContext}
OldSyms == {SymRemoved, SymContext}

\* The rows among the first n whose change symbol is in syms
RowsIn(syms, n) == {x \in 1..n : diff_lines[x][1] \in syms}

\* The texts (symbol stripped) of the rows whose symbol is in syms, in order
RowTexts(syms) ==
    LET sel == SelectSeq(diff_lines, LAMBDA row : row[1] \in syms)
    IN  [x \in DOMAIN sel |-> Tail(sel[x])]

\* C1: when the projection pass has consumed every opcode, the Added and
\* Context rows, symbol stripped and in emitted order, are exactly
\* new_content, and the Removed and Context rows are exactly old_content.
C1_NoInformationLoss ==
    ProjectionDone =>
        /\ \A x \in DOMAIN diff_lines :
              diff_lines[x] # <<>> /\ diff_lines[x][1] \in NewSyms \cup OldSyms
        /\ RowTexts(NewSyms) = new_content
        /\ RowTexts(OldSyms) = old_content

\* A finished pass over two versions that differ and share a line
C1_Witness ==
    /\ ProjectionDone
    /\ \E x \in DOMAIN opcodes : opcodes[x].tag = "replace"
    /\ \E x \in DOMAIN opcodes : opcodes[x].tag = "equal"
    /\ Len(old_content) = MaxLines
    /\ Len(new_content) = MaxLines

C3_Classification ==
    /\ pc = "classify" => ENABLED (InsertImage \/ SkipBinary \/ ChooseLexer)
    /\ pc \in {"align", "project", "next", "crashed"} =>
          LET binary == is_binary_string(old_bytes)
                            \/ is_binary_string(new_bytes)
              mimetype == GuessType(file)
              image == mimetype # <<>> /\ mimetype[1] = "image"
          IN  /\ kind \in {"Text", "Binary", "Image"}
              /\ kind = "Text" <=> ~binary
              /\ kind = "Image" <=> binary /\ image
              /\ kind = "Binary" <=> binary /\ ~image
              /\ 0 \in Range(old_bytes) => kind # "Text"
              /\ kind # "Text" =>
                    /\ pc = "next"
                    /\ old_content = <<>> /\ new_content = <<>>
                    /\ lexer = "none"
                    /\ opcodes = <<>>
                    /\ diff_lines = <<>> /\ line_nums = <<>>
                    /\ table = <<>>

\* A file without a guessable MIME type whose old version holds a NUL byte
\* and whose new version is text, skipped as Binary
C3_Witness ==
    /\ pc = "next"
    /\ kind = "Binary"
    /\ GuessType(file) = <<>>
    /\ 0 \in Range(old_bytes)
    /\ ~is_binary_string(new_bytes)

\* C4 as stated: is_binary_string(buf) iff buf holds a byte outside
\* {7,8,9,10,12,13,27} \cup ([0x20,0xFF) \ {0x7F}), so that 0xFF makes a
\* buffer binary.
C4_AllowListTo0xFE ==
    pc = "returned" =>
        (is_binary <=>
            \E x \in DOMAIN bytes_data :
                bytes_data[x] \notin {7, 8, 9, 10, 12, 13, 27}
                /\ ~(bytes_data[x] >= 32 /\ bytes_data[x] < 255
                     /\ bytes_data[x] # 127))

\* C4, amended: is_binary_string(buf) iff buf holds a byte outside
\* {7,8,9,10,12,13,27} \cup ([0x20,0x100) \ {0x7F}): every byte in 0x00-0x06,
\* 0x0B, 0x0E-0x1A, 0x1C-0x1F and 0x7F makes the buffer binary, 0xFF and
\* every other allow-listed byte alone do not, and the empty buffer is
\* never binary.
C4_BinaryHeuristic ==
    pc = "returned" =>
        /\ is_binary <=>
              \E x \in DOMAIN bytes_data :
                  bytes_data[x] \notin {7, 8, 9, 10, 12, 13, 27}
                  /\ ~(bytes_data[x] >= 32 /\ bytes_data[x] <= 255
                       /\ bytes_data[x] # 127)
        /\ bytes_data = <<>> => ~is_binary
        /\ Range(bytes_data) \cap ((0..6) \cup {11} \cup (14..26)
                                    \cup (28..31) \cup {127}) # {}
              => is_binary
        /\ bytes_data = <<255>> => ~is_binary

\* The call has returned for a buffer that holds 0xFF and only text bytes
C4_Witness ==
    /\ pc = "returned"
    /\ 255 \in Range(bytes_data)
    /\ Len(bytes_data) > 1
    /\ ~is_binary

\* C5: no lexer or tokenizer failure on one file stops the loop: every file
\* of changed_files is processed and the report is saved.
C5_LexerFailureIsolated ==
    /\ error \in {"ClassNotFound", "TokenizerError"} => pc # "crashed"
    /\ pc = "done" => saved /\ index = nfiles

\* The rows a pass over identical versions is to emit: one Context row per
\* line, numbered 1..len
ContextRowsOnly ==
    /\ Len(diff_lines) = Len(new_content)
    /\ Len(line_nums) = Len(new_content)
    /\ \A x \in DOMAIN diff_lines :
          /\ diff_lines[x] = <<SymContext>> \o new_content[x]
          /\ line_nums[x] = x

\* C6 as stated: aligning any sequence L, the empty one included, against
\* itself yields a single Equal op spanning [0,len(L)) on both sides, and
\* the projection emits len(L) Context rows numbered 1..len(L).
C6_SingleEqualAlways ==
    /\ pc = "project" /\ old_content = new_content =>
          opcodes = <<Opcode("equal", 0, Len(old_content), 0, Len(new_content))>>
    /\ ProjectionDone /\ old_content = new_content => ContextRowsOnly

\* C6, amended: aligning a non-empty sequence L against itself yields a
\* single Equal op spanning [0,len(L)) on both sides, aligning the empty
\* sequence against itself yields no op at all, and in both cases the
\* projection emits exactly len(L) rows, all Context, numbered 1..len(L).
C6_Idempotence ==
    /\ pc = "project" /\ old_content = new_content =>
          opcodes = IF old_content = <<>> THEN <<>>
                    ELSE <<Opcode("equal", 0, Len(old_content),
                                  0, Len(new_content))>>
    /\ ProjectionDone /\ old_content = new_content => ContextRowsOnly

\* A finished pass over two identical versions of MaxLines lines
C6_Witness ==
    /\ ProjectionDone
    /\ old_content = new_content
    /\ Len(old_content) = MaxLines
    /\ Len(diff_lines) = MaxLines

\* C7: the opcodes partition both index ranges: the old ranges, in order,
\* tile [0,len(old)) and the new ranges tile [0,len(new)) without gap or
\* overlap; Equal ops have ranges of equal length with identical lines,
\* Delete ops an empty new range, Insert ops an empty old range, and
\* Replace ops two non-empty ranges.
C7_Partition ==
    pc = "project" =>
        LET n == Len(opcodes)
            start(side, x) == IF side = "old" THEN opcodes[x].i1 ELSE opcodes[x].j1
            end(side, x) == IF side = "old" THEN opcodes[x].i2 ELSE opcodes[x].j2
            total(side) == IF side = "old" THEN Len(old_content)
                           ELSE Len(new_content)
        IN  /\ \A side \in {"old", "new"} :
                  /\ n = 0 => total(side) = 0
                  /\ n > 0 => start(side, 1) = 0 /\ end(side, n) = total(side)
                  /\ \A x \in 1..n : start(side, x) <= end(side, x)
                  /\ \A x \in 1..(n - 1) : end(side, x) = start(side, x + 1)
            /\ \A x \in 1..n :
                  LET o == opcodes[x]
                  IN  /\ o.tag \in {"equal", "replace", "delete", "insert"}
                      /\ o.tag = "equal" =>
                            /\ o.i2 - o.i1 = o.j2 - o.j1
                            /\ Slice(old_content, o.i1, o.i2)
                                   = Slice(new_content, o.j1, o.j2)
                      /\ o.tag = "delete" => o.j1 = o.j2
                      /\ o.tag = "insert" => o.i1 = o.i2
                      /\ o.tag = "replace" => o.i1 < o.i2 /\ o.j1 < o.j2

\* Three ops, a Replace between two Equal ops
C7_Witness ==
    /\ pc = "project"
    /\ Len(opcodes) = 3
    /\ opcodes[1].tag = "equal"
    /\ opcodes[2].tag = "replace"
    /\ opcodes[3].tag = "equal"

\* Every run of every table row has the default attributes
AllRunsDefault ==
    \A x \in DOMAIN table : \A y \in DOMAIN table[x].runs :
        LET run == table[x].runs[y]
        IN  ~run.bold /\ ~run.italic /\ run.color = NoColor

Unresolvable == pygments_style \notin StyleNames

RECURSIVE Prefixed(_, _)
Prefixed(sym, lines) ==
    IF lines = <<>> THEN <<>>
    ELSE <<(<<sym>> \o Head(lines))>> \o Prefixed(sym, Tail(lines))

RowsOfOp(o) ==
    LET olds == Slice(old_content, o.i1, o.i2)
        news == Slice(new_content, o.j1, o.j2)
    IN  CASE o.tag = "equal"   -> Prefixed(SymContext, news)
          [] o.tag = "replace" -> Prefixed(SymRemoved, olds)
                                      \o Prefixed(SymAdded, news)
          [] o.tag = "delete"  -> Prefixed(SymRemoved, olds)
          [] o.tag = "insert"  -> Prefixed(SymAdded, news)
          [] OTHER             -> <<>>

RECURSIVE RowsOfOps(_)
RowsOfOps(ops) ==
    IF ops = <<>> THEN <<>> ELSE RowsOfOp(Head(ops)) \o RowsOfOps(Tail(ops))

\* C9: rows are emitted in the order of the ops, nothing reordered or
\* merged: at any moment of the pass diff_lines is the rows of the ops
\* already consumed followed by the first rows of the op in hand, where an
\* Equal op gives one Context row per line of its new range, a Delete op
\* one Removed row per line of its old range, an Insert op one Added row
\* per line of its new range, and a Replace op all its Removed rows (old
\* order) before all its Added rows (new order).
C9_RowOrdering ==
    pc = "project" =>
        LET o == pos[1]
            before == RowsOfOps(SubSeq(opcodes, 1, o - 1))
            inhand == IF o > Len(opcodes) THEN 0
                      ELSE pos[3] + (IF pos[2] = 2
                                     THEN opcodes[o].i2 - opcodes[o].i1 ELSE 0)
        IN  /\ o <= Len(opcodes) + 1
            /\ o > Len(opcodes) \/ inhand < Len(RowsOfOp(opcodes[o]))
            /\ diff_lines = before
                   \o (IF o > Len(opcodes) THEN <<>>
                       ELSE SubSeq(RowsOfOp(opcodes[o]), 1, inhand))

\* In a Replace op, after its last Removed row and its first Added row,
\* with a second Added row to come
C9_Witness ==
    /\ pc = "project"
    /\ pos[1] <= Len(opcodes)
    /\ opcodes[pos[1]].tag = "replace"
    /\ pos[2] = 2
    /\ pos[3] = 1
    /\ pos[1] > 1
    /\ diff_lines[Len(diff_lines)][1] = SymAdded
    /\ diff_lines[Len(diff_lines) - 1][1] = SymRemoved

\* Line 473 or line 476 has put its element in the document
SectionWritten == pc = "next" \/ (pc = "crashed" /\ error = "KeyError")

====
